---- MODULE Spec2Model ----
(***************************************************************************)
(* Model of scripts/manual_worker.py: PDF -> sections -> regex NER ->      *)
(* optional Claude extraction -> one JSON record per non-skipped section.  *)
(*                                                                         *)
(* A page text is the sequence of its lines (text.split('\n')); the empty  *)
(* text is the one-line sequence <<"">>.  A section's content is the       *)
(* sequence of the lines of its pages, each line followed by "\n", which   *)
(* is what  content += text + "\n"  builds.  Lines are drawn from a fixed  *)
(* vocabulary whose lengths and alphabetic counts are tabulated below.     *)
(* Confidence is kept in hundredths and cost in millionths of a dollar.    *)
(***************************************************************************)
EXTENDS Integers, Sequences, FiniteSets, TLC

\* ---------------------------------------------------------------- bounds
MaxPages == 3
MaxPagesTwoRuns == 2
MaxLines == 3
MaxContext == 2
MaxRuns == 3

\* ------------------------------------------------------- line vocabulary
BODY201 == "body: 201 letters"
BODY200 == "body: 200 letters"
BODY199 == "body: 199 letters"
BODY50  == "body: 50 letters"
DIGITS300 == "parts table: 300 digits"
SPACES == "   "
RATIO30 == "mixed: 299 characters, 90 letters"
RATIO29 == "mixed: 289 characters, 80 letters"
CONN_C == "wiring: connectors C1 to C12"
CONN_D == "wiring: connectors D1 to D12"
PARTS21 == "parts: 21 part numbers"

Lines ==
  {"", SPACES, "ENGINE MANAGEMENT SYSTEM", "TABLE OF CONTENTS", "INTRODUCTION",
   "INDEX", "Chapter 1", "1.2 Wiring", BODY201, BODY200, BODY199, BODY50,
   DIGITS300, RATIO30, RATIO29, CONN_C, CONN_D, PARTS21}

\* len(line)
LineLen(l) ==
  CASE l = "" -> 0
    [] l = SPACES -> 3
    [] l = "ENGINE MANAGEMENT SYSTEM" -> 24
    [] l = "TABLE OF CONTENTS" -> 17
    [] l = "INTRODUCTION" -> 12
    [] l = "INDEX" -> 5
    [] l = "Chapter 1" -> 9
    [] l = "1.2 Wiring" -> 10
    [] l = BODY201 -> 201
    [] l = BODY200 -> 200
    [] l = BODY199 -> 199
    [] l = BODY50 -> 50
    [] l = DIGITS300 -> 300
    [] l = RATIO30 -> 299
    [] l = RATIO29 -> 289
    [] l = CONN_C -> 260
    [] l = CONN_D -> 260
    [] l = PARTS21 -> 300

\* sum(c.isalpha() for c in line)
LineAlpha(l) ==
  CASE l = "" -> 0
    [] l = SPACES -> 0
    [] l = "ENGINE MANAGEMENT SYSTEM" -> 22
    [] l = "TABLE OF CONTENTS" -> 15
    [] l = "INTRODUCTION" -> 12
    [] l = "INDEX" -> 5
    [] l = "Chapter 1" -> 7
    [] l = "1.2 Wiring" -> 6
    [] l = BODY201 -> 201
    [] l = BODY200 -> 200
    [] l = BODY199 -> 199
    [] l = BODY50 -> 50
    [] l = DIGITS300 -> 0
    [] l = RATIO30 -> 90
    [] l = RATIO29 -> 80
    [] l = CONN_C -> 150
    [] l = CONN_D -> 150
    [] l = PARTS21 -> 120

\* line.strip() == "" : the line holds whitespace only
IsBlank(l) == l \in {"", SPACES}

\* RE_ALL_CAPS_HEADING = ^[A-Z][A-Z\s\-/&]{4,}$
RE_ALL_CAPS_HEADING(l) ==
  l \in {"ENGINE MANAGEMENT SYSTEM", "TABLE OF CONTENTS", "INTRODUCTION", "INDEX"}

\* RE_CHAPTER = ^(?:Chapter|Section|CHAPTER|SECTION)\s+\d+
RE_CHAPTER(l) == l = "Chapter 1"

\* RE_NUMBERED_SECTION = ^\d+[\.\-]\d*\s+[A-Z]
RE_NUMBERED_SECTION(l) == l = "1.2 Wiring"

\* str.title() on the all-caps lines of the vocabulary
TitleCase(l) ==
  CASE l = "ENGINE MANAGEMENT SYSTEM" -> "Engine Management System"
    [] l = "TABLE OF CONTENTS" -> "Table Of Contents"
    [] l = "INTRODUCTION" -> "Introduction"
    [] l = "INDEX" -> "Index"
    [] OTHER -> l

\* SKIP_PATTERNS.match(title), case-insensitive, anchored at the start
SKIP_PATTERNS(title) == title \in {"Table Of Contents", "Index"}

NoHeading == "<None>"

\* --------------------------------------------------------- input pages
PageTexts ==
  { <<"">>,
    <<SPACES>>,
    <<"ENGINE MANAGEMENT SYSTEM", BODY201>>,
    <<"TABLE OF CONTENTS", BODY201>>,
    <<"INTRODUCTION", BODY50>>,
    <<BODY200>>,
    <<BODY199>>,
    <<DIGITS300, BODY50>>,
    <<"", SPACES, "", "", "Chapter 1", BODY201>>,
    <<"", "", BODY50, BODY50, BODY50, "1.2 Wiring">>,
    <<"INDEX", "1.2 Wiring", BODY50>> }

RECURSIVE SeqsUpTo(_, _)
SeqsUpTo(S, n) ==
  IF n = 0 THEN {<<>>}
  ELSE LET shorter == SeqsUpTo(S, n - 1)
       IN  shorter \cup {Append(s, x) : s \in {t \in shorter : Len(t) = n - 1}, x \in S}

\* documents built for the alpha-ratio boundary and for the connector cap
BoundaryDocuments ==
  { << <<RATIO30>>, <<"Chapter 1", RATIO29>> >>,
    << <<CONN_C>>, <<CONN_D>> >>,
    << <<CONN_C>>, <<CONN_C>>, <<CONN_D>> >>,
    << <<CONN_D>>, <<PARTS21>> >> }

Documents == SeqsUpTo(PageTexts, MaxPages) \cup BoundaryDocuments

\* ----------------------------------------------------- sequence helpers
RECURSIVE SumSeq(_)
SumSeq(s) == IF s = <<>> THEN 0 ELSE Head(s) + SumSeq(Tail(s))

Min(a, b) == IF a < b THEN a ELSE b

\* content.strip() == ""
AllBlank(content) == \A k \in 1..Len(content) : IsBlank(content[k])

\* len(content)
ContentLen(content) == SumSeq([k \in 1..Len(content) |-> LineLen(content[k]) + 1])

\* len(content.strip()): from the first to the last non-blank line
StrippedLen(content) ==
  IF AllBlank(content) THEN 0
  ELSE LET nb == {k \in 1..Len(content) : ~IsBlank(content[k])}
           first == CHOOSE k \in nb : \A j \in nb : k <= j
           last == CHOOSE k \in nb : \A j \in nb : j <= k
       IN  SumSeq([k \in 1..(last - first + 1) |-> LineLen(content[first + k - 1])])
           + (last - first)

\* sum(c.isalpha() for c in content)
AlphaCount(content) == SumSeq([k \in 1..Len(content) |-> LineAlpha(content[k])])

VARIABLES
  argv,             \* [ok, max_pages]: enough positional arguments, --max-pages
  pdf,              \* [exists, loadable, pages]: the input document
  vehicle,          \* [make, model, year]: override or filename-derived
  run,              \* 1 in the first run over the input, 2 in a second one
  first_run,        \* the identifiers the first run gave its records
  pc,               \* position of the run
  exit_code,        \* -1 while running, then the process exit status
  error,            \* the exception that ended the run, "" if none
  i,                \* extract_sections: number of pages consumed
  sections,         \* extract_sections: the section list
  current_section,  \* extract_sections: the open section
  headings,         \* per consumed page, the heading detected on it
  api_key,          \* process_pdf: TRUE when ANTHROPIC_API_KEY was set
  client,           \* process_pdf: TRUE when an anthropic client was built
  idx,              \* process_pdf: index of the section the loop is at
  total_cost,       \* process_pdf: accumulated cost, millionths of a dollar
  total_sections,   \* process_pdf: sections written
  total_claude_calls, \* process_pdf: the "Claude API calls" counter
  output_files,     \* process_pdf: paths of the files written
  disk,             \* the output directory: the records written, in write order
  built,            \* indices of the sections build_output returned a record for
  clock,            \* the wall clock, in ticks; a build_output call takes one
  skipped,          \* indices of the sections the loop skipped
  llm_calls,        \* every client.messages.create call: [idx, reply, result]
  summary,          \* the summary the run logged, NoSummary before that
  request,          \* chat: the ChatRequest of the call being served
  upstream,         \* chat: what Ollama answers: [ok, lines, body]
  rpc_pc,           \* chat: position of the call
  posted,           \* chat: the JSON body sent to /api/chat
  read,             \* ChatStream: lines taken from resp.iter_lines()
  yielded,          \* ChatStream: the chunks yielded, in order
  response,         \* Chat: the ChatResponse returned
  history_file,     \* dashboard: metrics-history.json, [state, v]
  prev_file,        \* dashboard: the previous-snapshot file, [state, v]
  timestamp_now,    \* dashboard: the time of the latest run, in ticks
  runs              \* dashboard: runs of the script so far

extract_vars == <<i, sections, current_section, headings>>
run_vars == <<api_key, client, idx, total_cost, total_sections, total_claude_calls,
              output_files, disk, built, clock, skipped, llm_calls, summary>>
env_vars == <<argv, pdf, vehicle, run, first_run>>
chat_vars == <<request, upstream, rpc_pc, posted, read, yielded, response>>
dash_vars == <<history_file, prev_file, timestamp_now, runs>>
vars == <<env_vars, pc, exit_code, error, extract_vars, run_vars, chat_vars, dash_vars>>

\* ------------------------------------------------------ extract_sections
NewSection(title) == [title |-> title, content |-> <<>>, pages |-> <<>>, tables |-> <<>>]

\* page.extract_tables() or []: the parts-table page carries one table
extract_tables(text) == IF text[1] = DIGITS300 THEN <<"parts table">> ELSE <<>>

\* the per-line test of the heading loop; NoHeading when the line matches nothing
LineHeading(l) ==
  IF RE_ALL_CAPS_HEADING(l) /\ LineLen(l) > 5 THEN TitleCase(l)
  ELSE IF RE_CHAPTER(l) THEN l
  ELSE IF RE_NUMBERED_SECTION(l) THEN l
  ELSE NoHeading

\* variant: the slice stops one line early, [:4]
FirstLines_Four(text) == SubSeq(text, 1, Min(4, Len(text)))

\* text.split('\n')[:5]
FirstLines(text) == SubSeq(text, 1, Min(5, Len(text)))

\* for line in ...: strip, skip blank, first match breaks
RECURSIVE ScanHeading(_)
ScanHeading(ls) ==
  IF ls = <<>> THEN NoHeading
  ELSE IF IsBlank(Head(ls)) THEN ScanHeading(Tail(ls))
  ELSE IF LineHeading(Head(ls)) # NoHeading THEN LineHeading(Head(ls))
  ELSE ScanHeading(Tail(ls))

DetectHeading(text) == ScanHeading(FirstLines(text))

\* variant: the section is appended without the content test
CloseSection_Always(secs, cur) == Append(secs, cur)

\* if current_section["content"].strip(): sections.append(current_section)
CloseSection(secs, cur) ==
  IF ~AllBlank(cur.content) THEN Append(secs, cur) ELSE secs

\* variant: the zero-based loop index is used as the page number
PageNum_ZeroBased(k) == k

\* page_num = i + 1
PageNum(k) == k + 1

\* variant: the page number is put in front of the page list
AppendPage_Prepend(cur, page_num, text, tables) ==
  [cur EXCEPT !.content = @ \o text, !.pages = <<page_num>> \o @,
              !.tables = @ \o tables]

AppendPage(cur, page_num, text, tables) ==
  [cur EXCEPT !.content = @ \o text, !.pages = Append(@, page_num),
              !.tables = @ \o tables]

\* variant: any detected heading opens a section, equal to the open title or not
Opens_AnyHeading(heading, cur) == heading # NoHeading

\* if heading and heading != current_section["title"]
Opens(heading, cur) == heading # NoHeading /\ heading # cur.title

\* ------------------------------------------------------------ regex_ner
\* RE_COMPONENT_TYPES.findall(line)
LineComponentTypes(l) == IF l \in {BODY201, BODY200} THEN {"relay"} ELSE {}

\* RE_PART_NUMBER.findall(line)
LinePartNumbers(l) ==
  IF l = DIGITS300 THEN {"1234-5678A"}
  ELSE IF l = PARTS21
  THEN {"10001-AAAA", "10002-AAAA", "10003-AAAA", "10004-AAAA", "10005-AAAA",
        "10006-AAAA", "10007-AAAA", "10008-AAAA", "10009-AAAA", "10010-AAAA",
        "10011-AAAA", "10012-AAAA", "10013-AAAA", "10014-AAAA", "10015-AAAA",
        "10016-AAAA", "10017-AAAA", "10018-AAAA", "10019-AAAA", "10020-AAAA",
        "10021-AAAA"}
  ELSE {}

\* RE_VOLTAGE.findall(line)
LineVoltages(l) == IF l \in {CONN_C, PARTS21} THEN {"12V"} ELSE {}

\* RE_CONNECTOR.findall(line), in text order
LineConnectors(l) ==
  IF l = CONN_C
  THEN <<"C1", "C2", "C3", "C4", "C5", "C6", "C7", "C8", "C9", "C10", "C11", "C12">>
  ELSE IF l = CONN_D
  THEN <<"D1", "D2", "D3", "D4", "D5", "D6", "D7", "D8", "D9", "D10", "D11", "D12">>
  ELSE <<>>

\* RE_CONNECTOR.findall(text): the matches of the lines, concatenated
RECURSIVE ConnectorMatches(_)
ConnectorMatches(content) ==
  IF content = <<>> THEN <<>>
  ELSE LineConnectors(Head(content)) \o ConnectorMatches(Tail(content))

ConnectorCap == 20

\* variant: the connector matches are deduplicated without the [:20] slice
regex_ner_NoCap(content) ==
  [part_numbers |-> UNION {LinePartNumbers(content[k]) : k \in 1..Len(content)},
   voltages |-> UNION {LineVoltages(content[k]) : k \in 1..Len(content)},
   component_types |-> UNION {LineComponentTypes(content[k]) : k \in 1..Len(content)},
   connectors |-> LET raw == ConnectorMatches(content)
                  IN  {raw[k] : k \in 1..Len(raw)}]

\* list(set(findall(text))) per category; connectors: list(set(findall(text)[:20]))
regex_ner(content) ==
  [part_numbers |-> UNION {LinePartNumbers(content[k]) : k \in 1..Len(content)},
   voltages |-> UNION {LineVoltages(content[k]) : k \in 1..Len(content)},
   component_types |-> UNION {LineComponentTypes(content[k]) : k \in 1..Len(content)},
   connectors |-> LET raw == ConnectorMatches(content)
                      kept == SubSeq(raw, 1, Min(ConnectorCap, Len(raw)))
                  IN  {kept[k] : k \in 1..Len(kept)}]

\* -------------------------------------------------- should_skip_section
SkipMinLen == 200
AlphaNum == 3
AlphaDen == 10

\* variant: the ratio test reads <= 0.3
AlphaRatioLow_LE(content) ==
  LET total == IF ContentLen(content) > 1 THEN ContentLen(content) ELSE 1
  IN  AlphaCount(content) * AlphaDen <= AlphaNum * total

\* alpha_ratio = alpha / max(len(content), 1);  alpha_ratio < 0.3
\* (the float quotient is below the float 0.3 exactly when 10 * alpha < 3 * len)
AlphaRatioLow(content) ==
  LET total == IF ContentLen(content) > 1 THEN ContentLen(content) ELSE 1
  IN  AlphaCount(content) * AlphaDen < AlphaNum * total

\* variant: the length test reads <= 200
should_skip_section_LE(title, content) ==
  IF SKIP_PATTERNS(title) THEN TRUE
  ELSE IF StrippedLen(content) <= SkipMinLen THEN TRUE
  ELSE IF AlphaRatioLow(content) THEN TRUE
  ELSE FALSE

should_skip_section(title, content) ==
  IF SKIP_PATTERNS(title) THEN TRUE
  ELSE IF StrippedLen(content) < SkipMinLen THEN TRUE
  ELSE IF AlphaRatioLow(content) THEN TRUE
  ELSE FALSE

\* ------------------------------------------------------- claude_extract
None == [none |-> TRUE]

JList(items) == [t |-> "list", v |-> items]
JString == [t |-> "string", v |-> <<>>]

\* the JSON objects the model may reply with
GoodObject ==
  [system |-> "Engine", doc_type |-> "procedure",
   components |-> JList(<<[name |-> "ECU", type |-> "ecu"]>>), confidence |-> 85]
BareObject == [system |-> "Engine"]
NoNameObject == [components |-> JList(<<[type |-> "sensor"]>>), confidence |-> 85]
NonListObject == [components |-> JString, confidence |-> 85]
OverConfidentObject == [doc_type |-> "specs", confidence |-> 150]

\* response.usage of the reply that carries the object: input, output tokens
Usage(o) ==
  IF o = BareObject THEN <<812, 7>>
  ELSE IF o = OverConfidentObject THEN <<1, 4096>>
  ELSE <<1000, 500>>

\* what client.messages.create does: raises, or returns a text with usage
Replies ==
  { [outcome |-> "transport_error"],
    [outcome |-> "text", json |-> "unparseable"],
    [outcome |-> "text", json |-> "list"] }
  \cup
  { [outcome |-> "text", json |-> "object", obj |-> o,
     input_tokens |-> Usage(o)[1], output_tokens |-> Usage(o)[2]] :
    o \in {GoodObject, BareObject, NoNameObject, NonListObject, OverConfidentObject} }

NoReply == [outcome |-> "not_called"]

InputPrice == 3
OutputPrice == 15

\* variant: the two prices are swapped
Cost_Swapped(input_tokens, output_tokens) ==
  input_tokens * OutputPrice + output_tokens * InputPrice

\* cost = round((input_tokens * 3.0 + output_tokens * 15.0) / 1_000_000, 6), in
\* millionths: the quotient of an integer by 10^6 rounds to itself at 6 places
Cost(input_tokens, output_tokens) == input_tokens * InputPrice + output_tokens * OutputPrice

\* dict.get(key, default)
Get(d, key, default) == IF key \in DOMAIN d THEN d[key] ELSE default

\* the try block: any exception (create raising, json.loads raising, item
\* assignment on a value that is not a dict) is caught and None returned
claude_extract(reply) ==
  IF reply.outcome # "text" THEN None
  ELSE IF reply.json # "object" THEN None
  ELSE ("_cost_usd" :> Cost(reply.input_tokens, reply.output_tokens))
       @@ ("_input_tokens" :> reply.input_tokens)
       @@ ("_output_tokens" :> reply.output_tokens)
       @@ reply.obj

\* --------------------------------------------------------- build_output
\* bool(components)
Truthy(c) == IF c.t = "list" THEN Len(c.v) > 0 ELSE TRUE

\* [c["name"] for c in components] raises: KeyError on a dict without
\* "name", TypeError on the characters of a string
CompNamesRaises(components) ==
  IF ~Truthy(components) THEN FALSE
  ELSE IF components.t # "list" THEN TRUE
  ELSE \E k \in 1..Len(components.v) : "name" \notin DOMAIN components.v[k]

BuildRaises(claude_result) ==
  IF claude_result = None THEN FALSE
  ELSE CompNamesRaises(Get(claude_result, "components", JList(<<>>)))

DefaultConfidence == 50

\* the vehicles of the runs: one given by --make/--model/--year, one derived
\* from a file name that tells nothing
LandRover == [make |-> "Land Rover", model |-> "Defender 90", year |-> 1991]
UnknownVehicle == [make |-> "Unknown", model |-> "manual", year |-> 0]
Vehicles == {LandRover, UnknownVehicle}

\* s.lower().replace(" ", "-")
Slug(str) ==
  CASE str = "Land Rover" -> "land-rover"
    [] str = "Defender 90" -> "defender-90"
    [] str = "Unknown" -> "unknown"
    [] str = "manual" -> "manual"

\* variant: the identifier names the vehicle only
SourceId_NoIndex(v, section_idx) ==
  <<"manual:", Slug(v.make), "-", Slug(v.model), "-", v.year, ":section-">>

\* f"manual:{make_slug}-{model_slug}-{vehicle['year']}:section-{section_idx}"
SourceId(v, section_idx) ==
  <<"manual:", Slug(v.make), "-", Slug(v.model), "-", v.year, ":section-", section_idx>>

\* {k: v for k, v in ner.items() if v}
NonEmptyCategories(ner) ==
  [c \in {d \in DOMAIN ner : ner[d] # {}} |-> ner[c]]

build_output(section, section_idx, v, ner, claude_result, now) ==
  LET has == claude_result # None
      components == IF has THEN Get(claude_result, "components", JList(<<>>)) ELSE JList(<<>>)
  IN  [source_id |-> SourceId(v, section_idx),
       section_idx |-> section_idx,
       title |-> section.title,
       pages |-> section.pages,
       scraped_at |-> now,
       doc_type |-> IF has THEN Get(claude_result, "doc_type", "overview") ELSE "overview",
       extracted_components |-> components,
       comp_names |-> IF Truthy(components)
                      THEN {components.v[k].name : k \in 1..Len(components.v)}
                      ELSE Get(ner, "component_types", {}),
       confidence |-> IF has THEN Get(claude_result, "confidence", DefaultConfidence)
                      ELSE DefaultConfidence,
       part_numbers |-> ner.part_numbers,
       ner_results |-> NonEmptyCategories(ner),
       claude_cost_usd |-> IF has THEN Get(claude_result, "_cost_usd", 0) ELSE 0]

\* ------------------------------------------------------------ chat.py
\* the texts Ollama may send: as a line of the stream, or as the whole body
L_EMPTY == ""
L_HELLO == "{\"message\": {\"content\": \"Hello\"}, \"done\": false}"
L_WORLD == "{\"message\": {\"content\": \" world\"}, \"done\": true}"
L_BARE == "{}"
L_DONE == "{\"done\": true}"
L_BLANK == " "
L_LIST == "[]"
B_REPLY == "{\"message\": {\"content\": \"Hi\"}, \"eval_count\": 5, \"prompt_eval_count\": 3}"

StreamLines == {L_EMPTY, L_HELLO, L_WORLD, L_BARE, L_DONE, L_BLANK, L_LIST}
Bodies == {B_REPLY, L_BARE, L_BLANK, L_LIST}

EmptyDict == [k \in {} |-> 0]

\* json.loads / resp.json(): raises on a text that is not JSON
json_loads(text) ==
  CASE text = L_HELLO -> [raises |-> FALSE, t |-> "dict",
                          v |-> [message |-> [content |-> "Hello"], done |-> FALSE]]
    [] text = L_WORLD -> [raises |-> FALSE, t |-> "dict",
                          v |-> [message |-> [content |-> " world"], done |-> TRUE]]
    [] text = L_BARE  -> [raises |-> FALSE, t |-> "dict", v |-> EmptyDict]
    [] text = L_DONE  -> [raises |-> FALSE, t |-> "dict", v |-> [done |-> TRUE]]
    [] text = B_REPLY -> [raises |-> FALSE, t |-> "dict",
                          v |-> [message |-> [content |-> "Hi"],
                                 eval_count |-> 5, prompt_eval_count |-> 3]]
    [] text = L_LIST  -> [raises |-> FALSE, t |-> "list", v |-> <<>>]
    [] OTHER          -> [raises |-> TRUE, t |-> "none", v |-> <<>>]

\* "if not line: continue"
Falsy(line) == line = ""

\* lines 86-89: json.loads raises on a text that is not JSON and .get raises
\* AttributeError on a value that is not a dict; else the chunk with defaults
ChatChunk(line) ==
  LET chunk == json_loads(line) IN
  IF chunk.raises \/ chunk.t # "dict"
  THEN [raises |-> TRUE, text |-> "", done |-> FALSE]
  ELSE [raises |-> FALSE,
        text |-> Get(Get(chunk.v, "message", EmptyDict), "content", ""),
        done |-> Get(chunk.v, "done", FALSE)]

\* variant: the generator goes on after a done chunk
AfterYield_NoReturn(done) == "streaming"

\* "if done: return"
AfterYield(done) == IF done THEN "returned" ELSE "streaming"

DEFAULT_MODEL == "mistral"

\* request.model or _DEFAULT_MODEL
ModelOf(req) == IF req.model = "" THEN DEFAULT_MODEL ELSE req.model

\* variant: the system message is added whatever the prompt
build_messages_AlwaysSystem(req) ==
  <<[role |-> "system", content |-> req.system_prompt]>>
  \o [n \in 1..Len(req.context) |-> [role |-> "user", content |-> req.context[n]]]
  \o <<[role |-> "user", content |-> req.message]>>

\* _build_messages
build_messages(req) ==
  (IF req.system_prompt # ""
   THEN <<[role |-> "system", content |-> req.system_prompt]>>
   ELSE <<>>)
  \o [n \in 1..Len(req.context) |-> [role |-> "user", content |-> req.context[n]]]
  \o <<[role |-> "user", content |-> req.message]>>

\* the json= argument of client.post / client.stream
Body(req, stream) ==
  [model |-> ModelOf(req), messages |-> build_messages(req), stream |-> stream]

Requests ==
  [stream : BOOLEAN, model : {"", "llama3"}, system_prompt : {"", "You are helpful."},
   context : SeqsUpTo({"ctx1", "ctx2"}, MaxContext), message : {"", "Hello"}]

NoRequest ==
  [stream |-> FALSE, model |-> "", system_prompt |-> "", context |-> <<>>, message |-> ""]
NoUpstream == [ok |-> FALSE, lines |-> <<>>, body |-> ""]
NotPosted == [model |-> "", messages |-> <<>>, stream |-> FALSE]
NoResponse == [reply |-> "", tokens_used |-> 0, model |-> ""]

\* ---------------------------------------------------- update-dashboard.py
HistoryLimit == 288
TotalErrors == 23

\* a file of the script: absent, unreadable as JSON, or holding the value v
Absent == [state |-> "absent", v |-> <<>>]
Corrupt == [state |-> "corrupt", v |-> <<>>]
Holding(v) == [state |-> "json", v |-> v]

\* what a run finds: Neo4j node and relationship totals, Qdrant points, and
\* the "source" matches per source in the data files
Observations ==
  { [nodes |-> 5, rels |-> 2, vectors |-> 4, by_source |-> [reddit |-> 3]],
    [nodes |-> 7, rels |-> 3, vectors |-> 4, by_source |-> [reddit |-> 3]],
    [nodes |-> 7, rels |-> 2, vectors |-> 9, by_source |-> [reddit |-> 6, nhtsa |-> 1]],
    [nodes |-> 0, rels |-> 0, vectors |-> 0, by_source |-> [reddit |-> 3]],
    [nodes |-> 0, rels |-> 0, vectors |-> 0, by_source |-> EmptyDict],
    [nodes |-> 3, rels |-> 0, vectors |-> 2, by_source |-> [reddit |-> 1]] }

BaseObservation == [nodes |-> 5, rels |-> 2, vectors |-> 4, by_source |-> [reddit |-> 3]]

SumValues(d) ==
  LET keys == DOMAIN d IN
  (IF "reddit" \in keys THEN d["reddit"] ELSE 0) + (IF "nhtsa" \in keys THEN d["nhtsa"] ELSE 0)

\* total_docs = total_nodes if total_nodes > 0 else sum(docs_by_source.values())
TotalDocs(o) == IF o.nodes > 0 THEN o.nodes ELSE SumValues(o.by_source)

\* the fields of the snapshot the delta is taken against
Snapshot(o, t) ==
  [timestamp |-> t, total_docs_ingested |-> TotalDocs(o), total_errors |-> TotalErrors,
   docs_by_source |-> o.by_source, total_nodes |-> o.nodes,
   total_relationships |-> o.rels, total_vectors |-> o.vectors]

\* for src, cnt in docs_by_source.items(): d = cnt - prev count; kept if d > 0
SourceDelta(cur, old) ==
  [src \in {k \in DOMAIN cur : cur[k] - Get(old, k, 0) > 0} |-> cur[src] - Get(old, src, 0)]

\* the delta record; prev is None when the file is absent or unreadable
Delta(o, t, prev) ==
  LET has == prev.state = "json" IN
  [timestamp |-> t, period |-> "5m",
   new_docs |-> IF has THEN TotalDocs(o) - prev.v.total_docs_ingested ELSE 0,
   new_nodes |-> IF has THEN o.nodes - prev.v.total_nodes ELSE 0,
   new_relations |-> IF has THEN o.rels - prev.v.total_relationships ELSE 0,
   new_vectors |-> IF has THEN o.vectors - prev.v.total_vectors ELSE 0,
   errors_delta |-> IF has THEN TotalErrors - prev.v.total_errors ELSE 0,
   docs_by_source |-> IF has THEN SourceDelta(o.by_source, prev.v.docs_by_source)
                      ELSE EmptyDict,
   total_docs |-> TotalDocs(o), total_vectors |-> o.vectors, total_nodes |-> o.nodes]

\* history = [] unless the file exists and loads
LoadHistory(f) == IF f.state = "json" THEN f.v ELSE <<>>

\* variant: the newest entries are cut, history[:288]
Trim_KeepsOldest(h) ==
  IF Len(h) > HistoryLimit THEN SubSeq(h, 1, HistoryLimit) ELSE h

\* if len(history) > 288: history = history[-288:]
Trim(h) ==
  IF Len(h) > HistoryLimit THEN SubSeq(h, Len(h) - HistoryLimit + 1, Len(h)) ELSE h

\* the history n earlier runs left, the store unchanged over them: the run at
\* time k - n wrote entry k
PriorHistory(n) == [k \in 1..n |-> Delta(BaseObservation, k - n, Absent)]

PriorLengths == {0, 1, HistoryLimit - 1, HistoryLimit}

\* ---------------------------------------------------------- process_pdf
LlmMinLen == 200

\* variant: the gate forgets the client test
LlmGate_NoClientTest(cl, content) == StrippedLen(content) > LlmMinLen

\* variant: the gate reads >= 200
LlmGate_GE(cl, content) == cl /\ StrippedLen(content) >= LlmMinLen

\* if client and len(section["content"].strip()) > 200
LlmGate(cl, content) == cl /\ StrippedLen(content) > LlmMinLen

\* total_claude_calls += 1 happens under  if claude_result:
CountCall(calls, claude_result) == IF claude_result # None THEN calls + 1 ELSE calls

\* variant: the cost of a call is not added to the total
CallCost_Dropped(claude_result) == 0

\* under  if claude_result:  cost = claude_result.get("_cost_usd", 0)
CallCost(claude_result) ==
  IF claude_result # None THEN Get(claude_result, "_cost_usd", 0) ELSE 0

HashPrefix == 500

\* content[:n]: whole lines with their "\n" while they fit, then a cut line
RECURSIVE Prefix(_, _)
Prefix(content, n) ==
  IF content = <<>> \/ n <= 0 THEN <<>>
  ELSE IF LineLen(Head(content)) + 1 <= n
  THEN <<[line |-> Head(content), take |-> LineLen(Head(content)) + 1]>>
       \o Prefix(Tail(content), n - LineLen(Head(content)) - 1)
  ELSE <<[line |-> Head(content), take |-> n]>>

\* variant: the digest is salted with the time of the call
ContentHash_Timed(content) == <<Prefix(content, HashPrefix), clock>>

\* hashlib.md5(section["content"][:500].encode()).hexdigest()[:8]: the digest
\* stands for the text it is taken of
ContentHash(content) == Prefix(content, HashPrefix)

\* f"manual-{make_slug}-{model_slug}-{vehicle['year']}-s{idx:03d}-{content_hash}.json"
Filename(v, section_idx, content_hash) ==
  [make_slug |-> Slug(v.make), model_slug |-> Slug(v.model), year |-> v.year,
   s |-> section_idx, hash |-> content_hash]

\* variant: the file is opened and nothing is dumped to the directory listing
json_dump_Lost(d, output) == d

\* with open(filepath, 'w') as f: json.dump(output, f, ...)
json_dump(d, output) == Append(d, output)

NoSummary == [reported |-> FALSE]

PageLimit == IF argv.max_pages > 0 THEN argv.max_pages ELSE Len(pdf.pages)
PagesToProcess == Min(PageLimit, Len(pdf.pages))

\* --max-pages is given only where it cuts the document short: a limit at or
\* above the page count behaves as no limit (line 99-103)
Init ==
  /\ argv \in [ok : BOOLEAN, max_pages : {0, 2}]
  /\ pdf \in [exists : BOOLEAN, loadable : BOOLEAN, pages : Documents]
  /\ (~argv.ok => argv.max_pages = 0 /\ pdf.exists /\ pdf.loadable /\ pdf.pages = <<>>)
  /\ (~pdf.exists => ~pdf.loadable /\ pdf.pages = <<>> /\ argv.max_pages = 0)
  /\ (~pdf.loadable => pdf.pages = <<>> /\ argv.max_pages = 0)
  /\ (argv.max_pages > 0 => Len(pdf.pages) > argv.max_pages)
  /\ vehicle \in Vehicles
  /\ (Len(pdf.pages) >= 2 => vehicle = LandRover)
  /\ ((~argv.ok \/ ~pdf.loadable) => vehicle = UnknownVehicle)
  /\ run = 1
  /\ first_run = <<>>
  /\ pc = "main"
  /\ exit_code = -1
  /\ error = ""
  /\ i = 0
  /\ sections = <<>>
  /\ current_section = NewSection("Introduction")
  /\ headings = <<>>
  /\ api_key = FALSE
  /\ client = FALSE
  /\ idx = 0
  /\ total_cost = 0
  /\ total_sections = 0
  /\ total_claude_calls = 0
  /\ output_files = <<>>
  /\ disk = <<>>
  /\ built = <<>>
  /\ clock = 0
  /\ skipped = {}
  /\ llm_calls = <<>>
  /\ summary = NoSummary
  /\ request = NoRequest
  /\ upstream = NoUpstream
  /\ rpc_pc = "idle"
  /\ posted = NotPosted
  /\ read = 0
  /\ yielded = <<>>
  /\ response = NoResponse
  /\ history_file = Absent
  /\ prev_file = Absent
  /\ timestamp_now = 0
  /\ runs = 0

\* main: len(sys.argv) < 3 -> usage, sys.exit(1)
MainUsage ==
  /\ pc = "main"
  /\ ~argv.ok
  /\ pc' = "exited"
  /\ exit_code' = 1
  /\ UNCHANGED <<dash_vars, chat_vars, env_vars, error, extract_vars, run_vars>>

\* main: not os.path.exists(pdf_path) -> sys.exit(1)
MainNotFound ==
  /\ pc = "main"
  /\ argv.ok
  /\ ~pdf.exists
  /\ pc' = "exited"
  /\ exit_code' = 1
  /\ UNCHANGED <<dash_vars, chat_vars, env_vars, error, extract_vars, run_vars>>

\* pdfplumber.open raises: nothing catches it, the interpreter exits with 1
OpenFails ==
  /\ pc = "main"
  /\ argv.ok
  /\ pdf.exists
  /\ ~pdf.loadable
  /\ pc' = "exited"
  /\ exit_code' = 1
  /\ error' = "LoadError"
  /\ UNCHANGED <<dash_vars, chat_vars, env_vars, extract_vars, run_vars>>

\* main -> process_pdf -> extract_sections, up to the page loop
OpenPdf ==
  /\ pc = "main"
  /\ argv.ok
  /\ pdf.exists
  /\ pdf.loadable
  /\ pc' = "extract_sections"
  /\ UNCHANGED <<dash_vars, chat_vars, env_vars, exit_code, error, extract_vars, run_vars>>

\* one iteration of  for i in range(min(page_limit, total_pages))
ExtractPage ==
  /\ pc = "extract_sections"
  /\ i < PagesToProcess
  /\ LET text == pdf.pages[i + 1]
         heading == DetectHeading(text)
         opens == Opens(heading, current_section)
         cur == IF opens THEN NewSection(heading) ELSE current_section
     IN  /\ sections' = IF opens THEN CloseSection(sections, current_section) ELSE sections
         /\ current_section' = AppendPage(cur, PageNum(i), text, extract_tables(text))
         /\ headings' = Append(headings, heading)
  /\ i' = i + 1
  /\ UNCHANGED <<dash_vars, chat_vars, env_vars, pc, exit_code, error, run_vars>>

\* end of the page loop: close the last section, return to process_pdf,
\* which returns at once (and main after it) when the list is empty
EndExtract ==
  /\ pc = "extract_sections"
  /\ i = PagesToProcess
  /\ sections' = CloseSection(sections, current_section)
  /\ IF sections' = <<>>
     THEN pc' = "exited" /\ exit_code' = 0
     ELSE pc' = "setup_client" /\ exit_code' = exit_code
  /\ UNCHANGED <<dash_vars, chat_vars, env_vars, error, i, current_section, headings, run_vars>>

\* client stays None without ANTHROPIC_API_KEY or when building it raises
SetupClient ==
  /\ pc = "setup_client"
  /\ \E key \in BOOLEAN, import_ok \in BOOLEAN :
       /\ api_key' = key
       /\ client' = (key /\ import_ok)
  /\ pc' = "section_loop"
  /\ UNCHANGED <<dash_vars, chat_vars, env_vars, exit_code, error, extract_vars, idx, total_cost,
                 total_sections, total_claude_calls, output_files, disk,
                 built, clock, skipped, llm_calls, summary>>

\* loop iteration that ends at  continue
SkipSection ==
  /\ pc = "section_loop"
  /\ idx < Len(sections)
  /\ should_skip_section(sections[idx + 1].title, sections[idx + 1].content)
  /\ skipped' = skipped \cup {idx}
  /\ idx' = idx + 1
  /\ UNCHANGED <<dash_vars, chat_vars, env_vars, pc, exit_code, error, extract_vars, api_key, client, total_cost,
                 total_sections, total_claude_calls, output_files, disk,
                 built, clock, llm_calls, summary>>

\* variant: the write is wrapped in a try that logs the error and goes on
ProcessSection_SwallowsWriteError ==
  /\ pc = "section_loop"
  /\ idx < Len(sections)
  /\ ~should_skip_section(sections[idx + 1].title, sections[idx + 1].content)
  /\ LET section == sections[idx + 1]
         ner == regex_ner(section.content)
         invoked == LlmGate(client, section.content)
     IN  \E reply \in IF invoked THEN Replies ELSE {NoReply}, write_ok \in BOOLEAN :
           LET claude_result == IF invoked THEN claude_extract(reply) ELSE None
               cost == CallCost(claude_result)
               output == build_output(section, idx, vehicle, ner, claude_result, clock)
               filename == Filename(vehicle, idx, ContentHash(section.content))
           IN  /\ llm_calls' = IF invoked
                               THEN Append(llm_calls, [idx |-> idx, reply |-> reply,
                                                       result |-> claude_result])
                               ELSE llm_calls
               /\ total_claude_calls' = CountCall(total_claude_calls, claude_result)
               /\ total_cost' = total_cost + cost
               /\ IF BuildRaises(claude_result)
                  THEN /\ pc' = "exited"
                       /\ exit_code' = 1
                       /\ error' = "build_output raised"
                       /\ UNCHANGED <<idx, total_sections, output_files, disk, built, clock>>
                  ELSE /\ built' = Append(built, idx)
                       /\ clock' = clock + 1
                       /\ disk' = IF write_ok THEN json_dump(disk, output) ELSE disk
                       /\ output_files' = IF write_ok THEN Append(output_files, filename)
                                          ELSE output_files
                       /\ total_sections' = IF write_ok THEN total_sections + 1
                                            ELSE total_sections
                       /\ idx' = idx + 1
                       /\ error' = IF write_ok THEN error ELSE "OSError"
                       /\ UNCHANGED <<pc, exit_code>>
  /\ UNCHANGED <<dash_vars, chat_vars, env_vars, extract_vars, api_key, client, skipped, summary>>

\* loop iteration of a section that is not skipped: NER, Claude, build, write
ProcessSection ==
  /\ pc = "section_loop"
  /\ idx < Len(sections)
  /\ ~should_skip_section(sections[idx + 1].title, sections[idx + 1].content)
  /\ LET section == sections[idx + 1]
         ner == regex_ner(section.content)
         invoked == LlmGate(client, section.content)
     IN  \E reply \in IF invoked THEN Replies ELSE {NoReply}, write_ok \in BOOLEAN :
           LET claude_result == IF invoked THEN claude_extract(reply) ELSE None
               cost == CallCost(claude_result)
               output == build_output(section, idx, vehicle, ner, claude_result, clock)
               filename == Filename(vehicle, idx, ContentHash(section.content))
           IN  /\ llm_calls' = IF invoked
                               THEN Append(llm_calls, [idx |-> idx, reply |-> reply,
                                                       result |-> claude_result])
                               ELSE llm_calls
               /\ total_claude_calls' = CountCall(total_claude_calls, claude_result)
               /\ total_cost' = total_cost + cost
               /\ IF BuildRaises(claude_result)
                  THEN /\ pc' = "exited"
                       /\ exit_code' = 1
                       /\ error' = "build_output raised"
                       /\ UNCHANGED <<idx, total_sections, output_files, disk, built, clock>>
                  ELSE IF ~write_ok
                  THEN /\ built' = Append(built, idx)
                       /\ clock' = clock + 1
                       /\ pc' = "exited"
                       /\ exit_code' = 1
                       /\ error' = "OSError"
                       /\ UNCHANGED <<idx, total_sections, output_files, disk>>
                  ELSE /\ built' = Append(built, idx)
                       /\ clock' = clock + 1
                       /\ disk' = json_dump(disk, output)
                       /\ output_files' = Append(output_files, filename)
                       /\ total_sections' = total_sections + 1
                       /\ idx' = idx + 1
                       /\ UNCHANGED <<pc, exit_code, error>>
  /\ UNCHANGED <<dash_vars, chat_vars, env_vars, extract_vars, api_key, client, skipped, summary>>

\* after the loop: the summary is logged, process_pdf and main return
Summary ==
  /\ pc = "section_loop"
  /\ idx = Len(sections)
  /\ summary' = [reported |-> TRUE,
                 sections_processed |-> total_sections,
                 sections_total |-> Len(sections),
                 claude_calls |-> total_claude_calls,
                 total_cost |-> total_cost,
                 output_files |-> Len(output_files)]
  /\ pc' = "exited"
  /\ exit_code' = 0
  /\ UNCHANGED <<dash_vars, chat_vars, env_vars, error, extract_vars, api_key, client, idx, total_cost,
                 total_sections, total_claude_calls, output_files, disk,
                 built, clock, skipped, llm_calls>>

Next ==
  \/ MainUsage
  \/ MainNotFound
  \/ OpenFails
  \/ OpenPdf
  \/ ExtractPage
  \/ EndExtract
  \/ SetupClient
  \/ SkipSection
  \/ ProcessSection
  \/ Summary

Spec == Init /\ [][Next]_vars

\* ------------------------------------------------------- a second run
\* the program is started again on the same document with the same vehicle,
\* after a run that had no client; the clock goes on, the rest starts afresh
Rerun ==
  /\ pc = "exited"
  /\ run = 1
  /\ argv.ok /\ pdf.loadable /\ Len(sections) > 0
  /\ ~client
  /\ run' = 2
  /\ first_run' = [ids |-> [n \in 1..Len(disk) |->
                              [source_id |-> disk[n].source_id,
                               filename |-> output_files[n],
                               scraped_at |-> disk[n].scraped_at]],
                   complete |-> summary.reported]
  /\ pc' = "main"
  /\ exit_code' = -1
  /\ error' = ""
  /\ i' = 0
  /\ sections' = <<>>
  /\ current_section' = NewSection("Introduction")
  /\ headings' = <<>>
  /\ api_key' = FALSE
  /\ client' = FALSE
  /\ idx' = 0
  /\ total_cost' = 0
  /\ total_sections' = 0
  /\ total_claude_calls' = 0
  /\ output_files' = <<>>
  /\ disk' = <<>>
  /\ built' = <<>>
  /\ skipped' = {}
  /\ llm_calls' = <<>>
  /\ summary' = NoSummary
  /\ UNCHANGED <<dash_vars, chat_vars, argv, pdf, vehicle, clock>>

InitTwoRuns == Init /\ Len(pdf.pages) <= MaxPagesTwoRuns

NextTwoRuns == Next \/ Rerun

SpecTwoRuns == InitTwoRuns /\ [][NextTwoRuns]_vars

\* ------------------------------------------------- the chat servicer
\* one call arrives at the servicer; the manual worker is not running
InitChat ==
  /\ argv = [ok |-> FALSE, max_pages |-> 0]
  /\ pdf = [exists |-> TRUE, loadable |-> TRUE, pages |-> <<>>]
  /\ vehicle = UnknownVehicle
  /\ run = 1
  /\ first_run = <<>>
  /\ pc = "idle"
  /\ exit_code = -1
  /\ error = ""
  /\ i = 0
  /\ sections = <<>>
  /\ current_section = NewSection("Introduction")
  /\ headings = <<>>
  /\ api_key = FALSE
  /\ client = FALSE
  /\ idx = 0
  /\ total_cost = 0
  /\ total_sections = 0
  /\ total_claude_calls = 0
  /\ output_files = <<>>
  /\ disk = <<>>
  /\ built = <<>>
  /\ clock = 0
  /\ skipped = {}
  /\ llm_calls = <<>>
  /\ summary = NoSummary
  /\ request \in Requests
  /\ upstream \in [ok : BOOLEAN, lines : SeqsUpTo(StreamLines, MaxLines), body : Bodies]
  /\ (request.stream => upstream.body = L_BARE)
  /\ (~request.stream => upstream.lines = <<>>)
  /\ (~upstream.ok => upstream.lines = <<>> /\ upstream.body = L_BARE)
  /\ rpc_pc = "start"
  /\ posted = NotPosted
  /\ read = 0
  /\ yielded = <<>>
  /\ response = NoResponse
  /\ history_file = Absent
  /\ prev_file = Absent
  /\ timestamp_now = 0
  /\ runs = 0

worker_vars == <<env_vars, pc, exit_code, error, extract_vars, run_vars>>

\* Chat: the whole unary call
Chat ==
  /\ rpc_pc = "start"
  /\ ~request.stream
  /\ posted' = Body(request, FALSE)
  /\ LET data == json_loads(upstream.body) IN
     IF ~upstream.ok \/ data.raises
     THEN /\ rpc_pc' = "aborted"
          /\ response' = response
     ELSE IF data.t # "dict"
     THEN /\ rpc_pc' = "raised"
          /\ response' = response
     ELSE /\ rpc_pc' = "returned"
          /\ response' =
               [reply |-> Get(Get(data.v, "message", EmptyDict), "content", ""),
                tokens_used |-> Get(data.v, "eval_count", 0)
                                + Get(data.v, "prompt_eval_count", 0),
                model |-> ModelOf(request)]
  /\ UNCHANGED <<dash_vars, worker_vars, request, upstream, read, yielded>>

\* ChatStream up to the first iteration: the request is sent, and
\* raise_for_status or the connection raising aborts the call
ChatStream ==
  /\ rpc_pc = "start"
  /\ request.stream
  /\ posted' = Body(request, TRUE)
  /\ rpc_pc' = IF upstream.ok THEN "streaming" ELSE "aborted"
  /\ UNCHANGED <<dash_vars, worker_vars, request, upstream, read, yielded, response>>

\* one iteration of "for line in resp.iter_lines()"
StreamLine ==
  /\ rpc_pc = "streaming"
  /\ read < Len(upstream.lines)
  /\ read' = read + 1
  /\ LET line == upstream.lines[read + 1]
         chunk == ChatChunk(line) IN
     IF Falsy(line)
     THEN UNCHANGED <<rpc_pc, yielded>>
     ELSE IF chunk.raises
     THEN /\ rpc_pc' = "aborted"
          /\ yielded' = yielded
     ELSE /\ yielded' = Append(yielded, [text |-> chunk.text, done |-> chunk.done])
          /\ rpc_pc' = AfterYield(chunk.done)
  /\ UNCHANGED <<dash_vars, worker_vars, request, upstream, posted, response>>

\* iter_lines is exhausted: the generator returns
StreamEnd ==
  /\ rpc_pc = "streaming"
  /\ read = Len(upstream.lines)
  /\ rpc_pc' = "returned"
  /\ UNCHANGED <<dash_vars, worker_vars, request, upstream, posted, read, yielded, response>>

NextChat ==
  \/ Chat
  \/ ChatStream
  \/ StreamLine
  \/ StreamEnd

SpecChat == InitChat /\ [][NextChat]_vars

\* ------------------------------------------------- the dashboard script
\* the script is run again and again by its scheduler; the manual worker and
\* the chat servicer are not running
InitDashboard ==
  /\ argv = [ok |-> FALSE, max_pages |-> 0]
  /\ pdf = [exists |-> TRUE, loadable |-> TRUE, pages |-> <<>>]
  /\ vehicle = UnknownVehicle
  /\ run = 1
  /\ first_run = <<>>
  /\ pc = "idle"
  /\ exit_code = -1
  /\ error = ""
  /\ i = 0
  /\ sections = <<>>
  /\ current_section = NewSection("Introduction")
  /\ headings = <<>>
  /\ api_key = FALSE
  /\ client = FALSE
  /\ idx = 0
  /\ total_cost = 0
  /\ total_sections = 0
  /\ total_claude_calls = 0
  /\ output_files = <<>>
  /\ disk = <<>>
  /\ built = <<>>
  /\ clock = 0
  /\ skipped = {}
  /\ llm_calls = <<>>
  /\ summary = NoSummary
  /\ request = NoRequest
  /\ upstream = NoUpstream
  /\ rpc_pc = "idle"
  /\ posted = NotPosted
  /\ read = 0
  /\ yielded = <<>>
  /\ response = NoResponse
  /\ history_file \in {Absent, Corrupt} \cup {Holding(PriorHistory(n)) : n \in PriorLengths}
  /\ prev_file \in {Absent, Corrupt, Holding(Snapshot(BaseObservation, 0))}
  /\ timestamp_now = 0
  /\ runs = 0

\* one run of the script, lines 60-230: query, snapshot, delta, history
UpdateDashboard ==
  /\ runs < MaxRuns
  /\ \E o \in Observations :
       /\ history_file' =
            Holding(Trim(Append(LoadHistory(history_file), Delta(o, timestamp_now + 1, prev_file))))
       /\ prev_file' = Holding(Snapshot(o, timestamp_now + 1))
  /\ timestamp_now' = timestamp_now + 1
  /\ runs' = runs + 1
  /\ UNCHANGED <<worker_vars, chat_vars>>

NextDashboard == UpdateDashboard

SpecDashboard == InitDashboard /\ [][NextDashboard]_vars

\* ======================================================================
\* Properties
\* ======================================================================

\* extract_sections has returned its list
Segmented == argv.ok /\ pdf.loadable /\ pc \notin {"main", "extract_sections"}

\* how many times page p occurs in the page lists of the returned sections
Occurrences(p) ==
  SumSeq([s \in 1..Len(sections) |->
            Cardinality({k \in 1..Len(sections[s].pages) : sections[s].pages[k] = p})])

\* C1 as stated: once extract_sections has returned, every processed page
\* index occurs in the page list of exactly one returned section.
C1_Original ==
  Segmented => \A p \in 1..PagesToProcess : Occurrences(p) = 1

\* C1 amended: once extract_sections has returned, every processed page index
\* occurs at most once over all returned page lists, and exactly once when the
\* page's text is not blank; a page that is missing is a blank page.
C1_Amended ==
  Segmented =>
    \A p \in 1..PagesToProcess :
      /\ Occurrences(p) <= 1
      /\ ~AllBlank(pdf.pages[p]) => Occurrences(p) = 1

\* a returned list that lost a blank leading page and kept a later page
C1_Witness ==
  /\ Segmented
  /\ PagesToProcess >= 2
  /\ AllBlank(pdf.pages[1])
  /\ Occurrences(1) = 0
  /\ Occurrences(2) = 1

\* C10: every section in the list built by extract_sections has a non-empty
\* page list and non-blank text, at every point of the run; a blank open
\* section is dropped when it is closed.
C10_SectionsNonBlank ==
  \A s \in 1..Len(sections) :
    /\ Len(sections[s].pages) > 0
    /\ ~AllBlank(sections[s].content)

\* the blank "Introduction" section was closed by a differing heading on page
\* 2 and is not in the list, whose first section starts at page 2
C10_Witness ==
  /\ Segmented
  /\ Len(sections) >= 1
  /\ Len(headings) >= 2
  /\ headings[1] = NoHeading
  /\ headings[2] \notin {NoHeading, "Introduction"}
  /\ sections[1].pages[1] = 2

\* a line on which one of the three heading tests succeeds
IsHeadingLine(l) ==
  \/ RE_ALL_CAPS_HEADING(l) /\ LineLen(l) > 5
  \/ RE_CHAPTER(l)
  \/ RE_NUMBERED_SECTION(l)

\* the heading given by the first heading line among the positions K of text
FirstMatchIn(text, K) ==
  LET hits == {k \in K : IsHeadingLine(text[k])}
  IN  IF hits = {} THEN NoHeading
      ELSE LET k == CHOOSE h \in hits : \A j \in hits : h <= j
           IN  IF RE_ALL_CAPS_HEADING(text[k]) THEN TitleCase(text[k]) ELSE text[k]

\* positions of the first five non-empty lines of text
FirstFiveNonEmpty(text) ==
  LET ne == {k \in 1..Len(text) : ~IsBlank(text[k])}
  IN  {k \in ne : Cardinality({j \in ne : j <= k}) <= 5}

\* a section other than the first-page one starts only on a page with a heading
OpensOnlyOnHeading ==
  \A s \in 1..Len(sections) :
    \A p \in 2..Len(headings) :
      (Len(sections[s].pages) > 0 /\ sections[s].pages[1] = p) => headings[p] # NoHeading

\* C7 as stated: the heading detected on a page is that of the first heading
\* line among the page's first five non-empty lines.
C7_Original ==
  \A p \in 1..Len(headings) :
    headings[p] = FirstMatchIn(pdf.pages[p], FirstFiveNonEmpty(pdf.pages[p]))

\* C7 amended: the heading detected on a page is that of the first heading
\* line among the page's first five lines, blank lines counted among the five;
\* a page without one opens no section.
C7_Amended ==
  /\ \A p \in 1..Len(headings) :
       headings[p] = FirstMatchIn(pdf.pages[p], 1..Min(5, Len(pdf.pages[p])))
  /\ OpensOnlyOnHeading

\* a heading on line five behind four blank lines was detected, and a heading
\* on line six behind two blank lines was not
C7_Witness ==
  \E p, q \in 1..Len(headings) :
    /\ Len(pdf.pages[p]) >= 5
    /\ \A k \in 1..4 : IsBlank(pdf.pages[p][k])
    /\ headings[p] = pdf.pages[p][5]
    /\ Len(pdf.pages[q]) >= 6
    /\ IsHeadingLine(pdf.pages[q][6])
    /\ FirstFiveNonEmpty(pdf.pages[q]) \ (1..5) # {}
    /\ headings[q] = NoHeading

\* the section loop of process_pdf has been entered
InLoop == pc = "section_loop" \/ (pc = "exited" /\ Len(sections) > 0 /\ Segmented)

\* the records on disk written for section k
RecordsOf(k) == {r \in 1..Len(disk) : disk[r].section_idx = k}
Emitted(k) == RecordsOf(k) # {}

\* a record carrying only the defaults of build_output
RegexOnly(r) ==
  /\ r.confidence = 50
  /\ r.doc_type = "overview"
  /\ r.claude_cost_usd = 0
  /\ r.extracted_components = JList(<<>>)

\* a reply that is no usable LLM result: transport error or timeout, text that
\* is not JSON, JSON that is not an object, or an object off the schema
FailedReply(reply) ==
  \/ reply.outcome = "transport_error"
  \/ reply.outcome = "text" /\ reply.json \in {"unparseable", "list"}
  \/ reply.outcome = "text" /\ reply.json = "object" /\ reply.obj \in {NoNameObject, NonListObject}

\* C2 as stated: a failed LLM call never ends the run; the section is emitted
\* with regex-only data and the defaults, and the loop goes on.
C2_Claim ==
  \A c \in 1..Len(llm_calls) :
    FailedReply(llm_calls[c].reply) =>
      /\ error # "build_output raised"
      /\ \A r \in RecordsOf(llm_calls[c].idx) : RegexOnly(disk[r])

\* C3 as stated: a run on a document that cannot be loaded, has no page to
\* process or yields no section ends with exit code 1 and no output file.
C3_Claim ==
  (pc = "exited" /\ argv.ok /\ (~pdf.loadable \/ PagesToProcess = 0 \/ sections = <<>>))
    => (exit_code = 1 /\ disk = <<>>)

\* the skip rule as the claim words it
LowValueTitles == {"Table Of Contents", "Index"}
SkipRule(sec) ==
  \/ sec.title \in LowValueTitles
  \/ StrippedLen(sec.content) < 200
  \/ AlphaCount(sec.content) * 10 < 3 * ContentLen(sec.content)

C5_Fallback ==
  (InLoop /\ ~api_key) =>
    /\ llm_calls = <<>>
    /\ \A r \in 1..Len(disk) :
         /\ disk[r].confidence = 50
         /\ disk[r].doc_type = "overview"
         /\ disk[r].claude_cost_usd = 0
    /\ total_cost = 0
    /\ total_claude_calls = 0

\* a finished run without key that wrote a section long enough for the gate
C5_Witness ==
  /\ summary.reported
  /\ ~api_key
  /\ \E r \in 1..Len(disk) : StrippedLen(sections[disk[r].section_idx + 1].content) > 200

\* C6: a call to the service is made only with a client, only for a section
\* whose stripped length is > 200 and that is not skipped, and at most once
\* for a section.
C6_Gating ==
  /\ \A c \in 1..Len(llm_calls) :
       /\ client
       /\ StrippedLen(sections[llm_calls[c].idx + 1].content) > 200
       /\ llm_calls[c].idx \notin skipped
       /\ ~SkipRule(sections[llm_calls[c].idx + 1])
  /\ \A c, d \in 1..Len(llm_calls) : llm_calls[c].idx = llm_calls[d].idx => c = d

\* with a client: a call failed and the loop moved on without a second call,
\* and a section of exactly 200 characters was written without a call
C6_Witness ==
  /\ client
  /\ \E c \in 1..Len(llm_calls) :
       llm_calls[c].reply.outcome = "transport_error" /\ llm_calls[c].idx < idx
  /\ \E r \in 1..Len(disk) :
       /\ StrippedLen(sections[disk[r].section_idx + 1].content) = 200
       /\ \A c \in 1..Len(llm_calls) : llm_calls[c].idx # disk[r].section_idx

\* C8 as stated: the call count of the summary is the number of calls made to
\* the service.
C8_Claim ==
  summary.reported => summary.claude_calls = Len(llm_calls)

\* C9 as stated: the confidence of every record written lies in [0,1].
C9_Claim ==
  \A r \in 1..Len(disk) : disk[r].confidence >= 0 /\ disk[r].confidence <= 100

\* one step of the page loop on page p == i + 1: on a heading that differs
\* from the open title the open section is closed (appended when not blank)
\* and p goes to the new section only; otherwise p goes to the open section
PageStepSplits ==
  (pc = "extract_sections" /\ i' = i + 1) =>
    LET p == i + 1
        h == headings'[p]
    IN  IF h # NoHeading /\ h # current_section.title
        THEN /\ current_section' =
                  [title |-> h, content |-> pdf.pages[p], pages |-> <<p>>,
                   tables |-> extract_tables(pdf.pages[p])]
             /\ sections' = IF AllBlank(current_section.content)
                            THEN sections ELSE Append(sections, current_section)
             /\ \A s \in 1..Len(sections') :
                  \A k \in 1..Len(sections'[s].pages) : sections'[s].pages[k] # p
        ELSE /\ current_section'.title = current_section.title
             /\ current_section'.pages = Append(current_section.pages, p)
             /\ current_section'.content = current_section.content \o pdf.pages[p]
             /\ current_section'.tables =
                  current_section.tables \o extract_tables(pdf.pages[p])
             /\ sections' = sections

\* the return of extract_sections on the one-page document that starts with
\* the line ENGINE MANAGEMENT SYSTEM
ScenarioA ==
  (pc = "extract_sections" /\ pc' # "extract_sections"
   /\ pdf.pages = << <<"ENGINE MANAGEMENT SYSTEM", BODY201>> >>) =>
    /\ Len(sections') = 1
    /\ sections'[1].title = "Engine Management System"
    /\ sections'[1].pages = <<1>>
    /\ \A s \in 1..Len(sections') : sections'[s].title # "Introduction"

\* C11: a page with a heading that differs from the open title closes the open
\* section and is appended, with its text and tables, to the new section only;
\* a page with the open title as heading or with no heading is appended to the
\* open section and nothing is closed; a first page that starts with ENGINE
\* MANAGEMENT SYSTEM gives the single section "Engine Management System", [1].
C11_HeadingSplit == [][PageStepSplits /\ ScenarioA]_vars

\* two pages with the same heading went to one section, which a third page
\* with another heading then closed
C11_Witness ==
  /\ Segmented
  /\ Len(sections) = 2
  /\ sections[1].pages = <<1, 2>>
  /\ headings[1] = sections[1].title
  /\ headings[2] = sections[1].title
  /\ sections[2].pages = <<3>>
  /\ headings[3] = sections[2].title

\* the sections the loop has passed without skipping them
PassedNotSkipped == {k \in 0..(idx - 1) : k \notin skipped}

\* how often k occurs in the sequence q
CountIn(q, k) == Cardinality({n \in 1..Len(q) : q[n] = k})

WriteFailureStops ==
  (error = "" /\ error' = "OSError") =>
    /\ disk' = disk
    /\ output_files' = output_files
    /\ total_sections' = total_sections
    /\ pc' = "exited"
    /\ exit_code' = 1
    /\ \A n \in 1..Len(output_files') : output_files'[n].s # idx'

\* C14: when the write of a section's file fails, the failed section is not
\* added to the file list or the processed count, the files written before
\* stay, and no step of the run follows: no later section is processed.
C14_WriteFailureStops ==
  [][WriteFailureStops /\ (error = "OSError" => vars' = vars)]_vars

\* the write of the second file failed with one file written and a further
\* section waiting
C14_Witness ==
  /\ error = "OSError"
  /\ Len(disk) = 1
  /\ idx >= 1
  /\ idx + 1 < Len(sections)
  /\ ~SkipRule(sections[idx + 2])

\* C15 as stated: a run that loaded its document and segmented at least one
\* section has reported the summary when it ends (a run ended by a failed
\* write of an output file set aside).
C15_Claim ==
  (pc = "exited" /\ Segmented /\ Len(sections) > 0 /\ error # "OSError")
    => summary.reported

\* C16: for a section the loop has passed whose title is no low-value heading
\* and whose stripped length is at least 200, a ratio of exactly 0.3 (10 *
\* alpha = 3 * len(content)) leaves it emitted and a ratio below 0.3 skips it.
C16_AlphaBoundary ==
  InLoop =>
    \A k \in 0..(idx - 1) :
      LET sec == sections[k + 1]
      IN  (sec.title \notin LowValueTitles /\ StrippedLen(sec.content) >= 200) =>
            /\ AlphaCount(sec.content) * 10 = 3 * ContentLen(sec.content)
                 => (Emitted(k) /\ k \notin skipped)
            /\ AlphaCount(sec.content) * 10 < 3 * ContentLen(sec.content)
                 => (k \in skipped /\ ~Emitted(k))

\* a section at exactly 90/300 was written and one at 87/300 was skipped
C16_Witness ==
  /\ InLoop
  /\ \E k \in 0..(idx - 1) :
       /\ AlphaCount(sections[k + 1].content) = 90
       /\ ContentLen(sections[k + 1].content) = 300
       /\ Emitted(k)
  /\ \E k \in skipped :
       /\ AlphaCount(sections[k + 1].content) = 87
       /\ ContentLen(sections[k + 1].content) = 300
       /\ StrippedLen(sections[k + 1].content) >= 200

\* C17: the result of every call that returned a JSON object carries the cost
\* 3 * input + 15 * output millionths and the token counts of the reply's
\* usage, unchanged; 1000 and 500 tokens cost 10500 millionths (0.0105).
C17_CostModel ==
  \A c \in 1..Len(llm_calls) :
    LET call == llm_calls[c]
    IN  (call.reply.outcome = "text" /\ call.reply.json = "object") =>
          /\ call.result # None
          /\ call.result["_cost_usd"] =
               3 * call.reply.input_tokens + 15 * call.reply.output_tokens
          /\ call.result["_input_tokens"] = call.reply.input_tokens
          /\ call.result["_output_tokens"] = call.reply.output_tokens
          /\ (call.reply.input_tokens = 1000 /\ call.reply.output_tokens = 500)
               => call.result["_cost_usd"] = 10500

\* results for 1000/500 tokens and for 812/7 tokens were both priced
C17_Witness ==
  /\ \E c \in 1..Len(llm_calls) :
       /\ llm_calls[c].result # None
       /\ llm_calls[c].reply.input_tokens = 1000
       /\ llm_calls[c].result["_cost_usd"] = 10500
  /\ \E c \in 1..Len(llm_calls) :
       /\ llm_calls[c].result # None
       /\ llm_calls[c].reply.input_tokens = 812
       /\ llm_calls[c].result["_cost_usd"] = 2541

\* the raw connector matches of a content, by position
RawConnectorAt(content) ==
  LET hits == {<<k, n>> \in (1..Len(content)) \X (1..12) :
                 n <= Len(LineConnectors(content[k]))}
      before(h) == {g \in hits : g[1] < h[1] \/ (g[1] = h[1] /\ g[2] < h[2])}
  IN  [h \in hits |-> [rank |-> Cardinality(before(h)) + 1,
                       name |-> LineConnectors(content[h[1]])[h[2]]]]

\* C18: in the bundle of every record written, the connector category is the
\* set of the first 20 raw matches in text order, so it has at most 20 strings
\* and lacks a designator first met after the 20th match; the part-number and
\* voltage categories hold every match, however many.
C18_ConnectorCap ==
  \A r \in 1..Len(disk) :
    LET content == sections[disk[r].section_idx + 1].content
        raw == RawConnectorAt(content)
        bundle == disk[r].ner_results
        connectors == Get(bundle, "connectors", {})
    IN  /\ connectors = {raw[h].name : h \in {g \in DOMAIN raw : raw[g].rank <= 20}}
        /\ Cardinality(connectors) <= 20
        /\ \A h \in DOMAIN raw :
             (\A g \in DOMAIN raw : raw[g].name = raw[h].name => raw[g].rank > 20)
               => raw[h].name \notin connectors
        /\ Get(bundle, "part_numbers", {}) =
             UNION {LinePartNumbers(content[k]) : k \in 1..Len(content)}
        /\ Get(bundle, "voltages", {}) =
             UNION {LineVoltages(content[k]) : k \in 1..Len(content)}

\* a record of 24 distinct raw matches kept 20 of them and lost D9
C18_Witness ==
  \E r \in 1..Len(disk) :
    /\ sections[disk[r].section_idx + 1].content = <<CONN_C, CONN_D>>
    /\ Cardinality(disk[r].ner_results.connectors) = 20
    /\ "D8" \in disk[r].ner_results.connectors
    /\ "D9" \notin disk[r].ner_results.connectors

\* C13: in a second run without client over the same pages and vehicle as a
\* first run without client, the n-th record written has the source_id and
\* the file name (index and content hash) of the n-th record of the first
\* run, and when both runs reach the summary they wrote as many records.
C13_Determinism ==
  (run = 2 /\ ~client) =>
    /\ \A n \in 1..Min(Len(disk), Len(first_run.ids)) :
         /\ disk[n].source_id = first_run.ids[n].source_id
         /\ output_files[n] = first_run.ids[n].filename
    /\ (summary.reported /\ first_run.complete) => Len(disk) = Len(first_run.ids)

\* both runs finished and wrote two records each, at different times
C13_Witness ==
  /\ run = 2
  /\ ~client
  /\ summary.reported
  /\ first_run.complete
  /\ Len(disk) = 2
  /\ Len(first_run.ids) = 2
  /\ disk[1].scraped_at # first_run.ids[1].scraped_at

\* -------------------------------------------------------------- chat.py
InStream == request.stream /\ rpc_pc \in {"streaming", "returned", "aborted"}

ReadLines == SubSeq(upstream.lines, 1, read)

NonEmpty(line) == line # ""

Parses(line) == line \in {L_HELLO, L_WORLD, L_BARE, L_DONE}

Yields(line) == NonEmpty(line) /\ Parses(line)

\* the chunk each line of the protocol stands for
ExpectedChunk(line) ==
  CASE line = L_HELLO -> [text |-> "Hello", done |-> FALSE]
    [] line = L_WORLD -> [text |-> " world", done |-> TRUE]
    [] line = L_DONE  -> [text |-> "", done |-> TRUE]
    [] OTHER          -> [text |-> "", done |-> FALSE]

\* no chunk is yielded after a done chunk, and a done chunk is the chunk of
\* the last line read: the generator has returned and reads no further
EndsAtDone ==
  /\ \A n \in 1..(Len(yielded) - 1) : ~yielded[n].done
  /\ \A n \in 1..read :
       (Yields(upstream.lines[n]) /\ ExpectedChunk(upstream.lines[n]).done)
         => (n = read /\ rpc_pc = "returned")

C20_Messages ==
  rpc_pc \in {"streaming", "returned", "aborted", "raised"} =>
    LET m == posted.messages
        k == IF request.system_prompt # "" THEN 1 ELSE 0 IN
    /\ Len(m) >= 1
    /\ Len(m) = k + Len(request.context) + 1
    /\ \A n \in 1..Len(m) :
         m[n].role = "system" <=> (n = 1 /\ request.system_prompt # "")
    /\ (request.system_prompt # "" => m[1].content = request.system_prompt)
    /\ \A j \in 1..Len(request.context) :
         m[k + j] = [role |-> "user", content |-> request.context[j]]
    /\ m[Len(m)] = [role |-> "user", content |-> request.message]

\* a request with a system prompt and two different context entries was sent
C20_Witness ==
  /\ rpc_pc = "returned"
  /\ request.system_prompt # ""
  /\ Len(request.context) = 2
  /\ request.context[1] # request.context[2]
  /\ Len(posted.messages) = 4
  /\ posted.messages[2].content = request.context[1]

\* ------------------------------------------------- page lists, ordering
\* C21: in the list built by extract_sections, at every point of the run, each
\* section's page list is a run of consecutive increasing page indices, the
\* first page of a section is greater than the last page of the section before
\* it, and no page index occurs in two sections.
C21_ConsecutivePages ==
  /\ \A s \in 1..Len(sections) :
       \A k \in 1..(Len(sections[s].pages) - 1) :
         sections[s].pages[k + 1] = sections[s].pages[k] + 1
  /\ \A s \in 1..(Len(sections) - 1) :
       (Len(sections[s].pages) > 0 /\ Len(sections[s + 1].pages) > 0)
         => sections[s + 1].pages[1] > sections[s].pages[Len(sections[s].pages)]
  /\ \A s, t \in 1..Len(sections) :
       s # t => \A k \in 1..Len(sections[s].pages) :
                  \A n \in 1..Len(sections[t].pages) :
                    sections[s].pages[k] # sections[t].pages[n]

\* two sections were returned, one of them spanning two pages
C21_Witness ==
  /\ Segmented
  /\ Len(sections) = 2
  /\ \E s \in 1..2 : Len(sections[s].pages) = 2

\* C22: the records of a run are written one section at a time in document
\* order: the n-th file is the file of the n-th record, the record of a
\* section is on disk before the loop examines a later section, the section
\* indices of the written files strictly increase in write order, and no two
\* records share a source_id or a file name (no file is overwritten).
C22_DocumentOrder ==
  InLoop =>
    /\ Len(output_files) = Len(disk)
    /\ \A n \in 1..Len(disk) :
         /\ output_files[n].s = disk[n].section_idx
         /\ disk[n].section_idx < idx
    /\ \A n, m \in 1..Len(disk) :
         n < m => /\ disk[n].section_idx < disk[m].section_idx
                  /\ disk[n].source_id # disk[m].source_id
                  /\ output_files[n] # output_files[m]

\* a skipped section leaves a gap between the indices of two written files
C22_Witness ==
  /\ InLoop
  /\ Len(disk) = 2
  /\ disk[1].section_idx = 0
  /\ disk[2].section_idx = 2
  /\ 1 \in skipped

\* C23: at every iteration boundary of the section loop, and after it, the
\* sections-processed counter is the length of the output-file list; when
\* the loop has ended, processed plus skipped sections is the number of
\* segmented sections, and these are the figures the summary reports.
C23_Counters ==
  /\ InLoop => total_sections = Len(output_files)
  /\ summary.reported =>
       /\ total_sections + Cardinality(skipped) = Len(sections)
       /\ summary.sections_processed = total_sections
       /\ summary.sections_total = Len(sections)
       /\ summary.output_files = summary.sections_processed

\* a finished run that wrote two sections and skipped one
C23_Witness ==
  /\ summary.reported
  /\ total_sections = 2
  /\ Cardinality(skipped) = 1
  /\ Len(sections) = 3

\* the calls made for section k that returned a result
ResultsFor(k) == {n \in 1..Len(llm_calls) : llm_calls[n].idx = k /\ llm_calls[n].result # None}

\* C24: the total cost the summary reports is the sum of claude_cost_usd over
\* the records written, and the record of a section whose LLM stage was not
\* invoked, or was invoked and returned nothing, has claude_cost_usd 0.
C24_CostSum ==
  /\ summary.reported =>
       summary.total_cost = SumSeq([n \in 1..Len(disk) |-> disk[n].claude_cost_usd])
  /\ InLoop =>
       \A n \in 1..Len(disk) :
         ResultsFor(disk[n].section_idx) = {} => disk[n].claude_cost_usd = 0

\* a finished run with a record that cost something, a record whose call
\* failed and a positive reported total
C24_Witness ==
  /\ summary.reported
  /\ summary.total_cost > 0
  /\ Len(disk) >= 2
  /\ \E n \in 1..Len(disk) : disk[n].claude_cost_usd > 0
  /\ \E n \in 1..Len(disk) :
       /\ disk[n].claude_cost_usd = 0
       /\ \E c \in 1..Len(llm_calls) :
            llm_calls[c].idx = disk[n].section_idx /\ llm_calls[c].result = None

\* ---------------------------------------------------- update-dashboard.py
NewFieldsZero(d) ==
  d.new_docs = 0 /\ d.new_nodes = 0 /\ d.new_relations = 0 /\ d.new_vectors = 0

\* the run's delta is the entry of this run's time with this run's totals
IsDeltaOfRun(d) ==
  /\ d.timestamp = timestamp_now'
  /\ d.total_docs = prev_file'.v.total_docs_ingested
  /\ d.total_nodes = prev_file'.v.total_nodes
  /\ d.total_vectors = prev_file'.v.total_vectors
  /\ (prev_file.state = "json" =>
        /\ d.new_docs = d.total_docs - prev_file.v.total_docs_ingested
        /\ d.new_nodes = d.total_nodes - prev_file.v.total_nodes
        /\ d.new_vectors = d.total_vectors - prev_file.v.total_vectors)

DashboardRun ==
  LET old == LoadHistory(history_file)
      new == history_file'.v
      dropped == Len(old) + 1 - Len(new)
  IN  /\ history_file'.state = "json"
      /\ Len(new) <= 288
      /\ Len(new) = Min(Len(old) + 1, 288)
      /\ IsDeltaOfRun(new[Len(new)])
      /\ \A k \in 1..(Len(new) - 1) : new[k] = old[k + dropped]
      /\ (prev_file.state # "json" => NewFieldsZero(new[Len(new)]))

\* C25: every run of the dashboard script leaves a history of at most 288
\* entries whose last entry is the delta of that run and whose other entries
\* are the newest entries of the history it found, in their order (the oldest
\* are the ones dropped when the bound is exceeded); a run that finds no
\* previous snapshot records a delta whose new_* fields are all 0.
C25_HistoryBound == [][runs' = runs + 1 => DashboardRun]_vars

\* two runs on a full history: 288 entries, the two oldest gone, the last
\* entry written by the latest run
C25_Witness ==
  /\ runs = 2
  /\ history_file.state = "json"
  /\ Len(history_file.v) = 288
  /\ history_file.v[1].timestamp = 3 - 288
  /\ history_file.v[288].timestamp = timestamp_now
  /\ history_file.v[287].new_nodes = 0
  /\ history_file.v[288].new_nodes # 0

====
